---- MODULE Spec2Model ----
(***************************************************************************)
(* Work-item lifecycle of the TaskPilot backend: the work_items table, the *)
(* WorkItem model and the routes of routes/work.js.                        *)
(*                                                                         *)
(* A column value or a JSON value is NULL, Str(s) or Num(n).  A string is *)
(* the sequence of its characters, so that trim(), length and the URL     *)
(* pattern                                                                 *)
(* are computed on the characters.  A request body is a function from the  *)
(* keys it carries to their values; a key it lacks reads as undefined.     *)
(*                                                                         *)
(* outbox is what the last request did outside its response, in order: its *)
(* write to the table and the notification and calendar calls it made.     *)
(* inflight holds the requests that have read their item and passed their  *)
(* checks but whose UPDATE has not run yet; it stays empty where every     *)
(* handler runs to its end before the next one starts.  view is the JSON   *)
(* payload of the last response to a read.                                 *)
(***************************************************************************)
EXTENDS Integers, Sequences, FiniteSets, TLC

VARIABLES users, items, nextId, req, res, outbox, inflight, view

vars == <<users, items, nextId, req, res, outbox, inflight, view>>

-----------------------------------------------------------------------------
(* Values *)

\* JavaScript / SQLite values: null, a string (its characters), a number.
NULL == [null |-> TRUE]
Str(s) == [str |-> s]
Num(n) == [num |-> n]

\* Bound of the model: AUTOINCREMENT ids handed out by the work_items table.
MaxItems == 1

\* The clock reading new Date() / CURRENT_TIMESTAMP returns.
Times == {1}

WhiteSpace == {" ", "\t", "\n"}

RECURSIVE trimStart(_)
trimStart(s) ==
  IF s # <<>> /\ Head(s) \in WhiteSpace THEN trimStart(Tail(s)) ELSE s

RECURSIVE trimEnd(_)
trimEnd(s) ==
  IF s # <<>> /\ s[Len(s)] \in WhiteSpace
    THEN trimEnd(SubSeq(s, 1, Len(s) - 1))
    ELSE s

\* String.prototype.trim
trim(s) == trimEnd(trimStart(s))

\* /^https?:\/\/[^\s$.?#].[^\s]*$/ .test(s)
urlRegex(s) ==
  LET p == IF Len(s) >= 5 /\ s[5] = "s" THEN 5 ELSE 4
  IN  /\ Len(s) >= p + 5
      /\ SubSeq(s, 1, 4) = <<"h", "t", "t", "p">>
      /\ SubSeq(s, p + 1, p + 3) = <<":", "/", "/">>
      /\ s[p + 4] \notin WhiteSpace \cup {"$", ".", "?", "#"}
      /\ s[p + 5] # "\n"
      /\ \A i \in (p + 6)..Len(s) : s[i] \notin WhiteSpace

\* A body key as JavaScript reads it: undefined, null and '' are falsy.
Has(body, k) == k \in DOMAIN body
Falsy(body, k) ==
  ~Has(body, k) \/ body[k] = NULL \/ body[k] = Str(<<>>) \/ body[k] = Num(0)

Digits == {"0", "1", "2", "3", "4", "5", "6", "7", "8", "9"}

\* new Date(v) is a valid date: a number of milliseconds, or a string in the
\* ISO date format.
validDate(v) ==
  IF "num" \in DOMAIN v THEN TRUE
  ELSE /\ v.str # <<>>
       /\ v.str[1] \in Digits
       /\ \A i \in 1..Len(v.str) : v.str[i] \in Digits \cup {"-", ":", "T", "Z", "."}

-----------------------------------------------------------------------------
(* Schema of work_items *)

Columns ==
  {"workerId", "task", "description", "instructions", "deadline", "status",
   "assignedAt", "submittedAt", "reviewedAt", "explanation", "workLink",
   "reviewNotes", "assignedBy", "reviewedBy"}

pending == <<"p", "e", "n", "d", "i", "n", "g">>
submitted == <<"s", "u", "b", "m", "i", "t", "t", "e", "d">>
approved == <<"a", "p", "p", "r", "o", "v", "e", "d">>
rejected == <<"r", "e", "j", "e", "c", "t", "e", "d">>

StatusValues == {pending, submitted, approved, rejected}

\* NOT NULL columns, the CHECK on status (a NULL passes a CHECK) and the
\* foreign keys, as SQLite enforces them on INSERT and UPDATE.
initializeDatabase(row, us) ==
  /\ \A c \in {"workerId", "task", "instructions", "deadline", "assignedBy"} :
       row[c] # NULL
  /\ row.status = NULL \/ row.status \in {Str(v) : v \in StatusValues}
  /\ row.workerId.num \in DOMAIN us
  /\ row.assignedBy.num \in DOMAIN us
  /\ row.reviewedBy = NULL \/ row.reviewedBy.num \in DOMAIN us

-----------------------------------------------------------------------------
(* Responses: res.status(code).json({message}) *)

Reply(code, message) == [status |-> code, message |-> message]

OK(message) == Reply(200, message)

\* The payload of a response that carries no item, list or count.
NoView == [kind |-> "none"]

-----------------------------------------------------------------------------
(* middleware/auth.js *)

\* requireAdmin as it would be if it let every authenticated role through.
requireAdmin_anyRole(user) == user.role \in {"admin", "worker"}

\* requireAdmin lets the request through iff the token's role is admin.
requireAdmin(user) == user.role = "admin"

-----------------------------------------------------------------------------
(* models/WorkItem.js *)

\* What a model method hands back to its caller: the table after the call and
\* whether the method threw.
Returned(tbl) == [threw |-> FALSE, items |-> tbl]
Thrown(tbl) == [threw |-> TRUE, items |-> tbl]

\* The allow-list of WorkItem.update as it would be with workerId on it.
allowedFields_withWorker ==
  {"task", "description", "instructions", "deadline", "status", "submittedAt",
   "reviewedAt", "explanation", "workLink", "reviewNotes", "reviewedBy", "workerId"}

allowedFields ==
  {"task", "description", "instructions", "deadline", "status", "submittedAt",
   "reviewedAt", "explanation", "workLink", "reviewNotes", "reviewedBy"}

trimmedFields == {"task", "description", "instructions", "explanation", "reviewNotes"}

\* The parameter WorkItem.update binds for one entry of updateData.
updateParam(key, value) ==
  IF key \in trimmedFields /\ value # NULL /\ value # Str(<<>>)
    THEN Str(trim(value.str))
    ELSE value

\* WorkItem.update as it would be if the status were written by a statement
\* of its own, ahead of the other columns.
WorkItem_update_statusFirst(tbl, us, id, updateData) ==
  LET updates == IF "status" \in DOMAIN updateData THEN {"status"}
                 ELSE {k \in DOMAIN updateData : k \in allowedFields}
      row == [c \in Columns |->
                IF c \in updates THEN updateParam(c, updateData[c]) ELSE tbl[id][c]]
  IN  IF updates = {} THEN Thrown(tbl)
      ELSE IF id \notin DOMAIN tbl THEN Returned(tbl)
      ELSE IF ~initializeDatabase(row, us) THEN Thrown(tbl)
      ELSE Returned([tbl EXCEPT ![id] = row])

\* WorkItem.update: UPDATE work_items SET <allow-listed keys> WHERE id = ?
WorkItem_update(tbl, us, id, updateData) ==
  LET updates == {k \in DOMAIN updateData : k \in allowedFields}
      row == [c \in Columns |->
                IF c \in updates THEN updateParam(c, updateData[c]) ELSE tbl[id][c]]
  IN  IF updates = {} THEN Thrown(tbl)
      ELSE IF id \notin DOMAIN tbl THEN Returned(tbl)
      ELSE IF ~initializeDatabase(row, us) THEN Thrown(tbl)
      ELSE Returned([tbl EXCEPT ![id] = row])

\* WorkItem.delete
WorkItem_delete(tbl, id) == [i \in DOMAIN tbl \ {id} |-> tbl[i]]

\* WorkItem.markCompleted as it would be if its UPDATE left workLink out.
WorkItem_markCompleted_noLink(tbl, id, completionData, now) ==
  IF Falsy(completionData, "explanation")
       \/ trim(completionData["explanation"].str) = <<>>
       \/ id \notin DOMAIN tbl
    THEN Thrown(tbl)
    ELSE Returned([tbl EXCEPT ![id] =
           [@ EXCEPT !.status = Str(submitted),
                     !.submittedAt = Num(now),
                     !.explanation = Str(trim(completionData["explanation"].str))]])

\* WorkItem.markCompleted: validates, then writes the four submission columns
\* in one UPDATE.
WorkItem_markCompleted(tbl, id, completionData, now) ==
  LET link == completionData["workLink"]
  IN  IF Falsy(completionData, "explanation")
           \/ trim(completionData["explanation"].str) = <<>>
        THEN Thrown(tbl)
      ELSE IF ~Falsy(completionData, "workLink") /\ trim(link.str) # <<>>
                /\ ~urlRegex(trim(link.str))
        THEN Thrown(tbl)
      ELSE IF id \notin DOMAIN tbl THEN Thrown(tbl)
      ELSE Returned([tbl EXCEPT ![id] =
             [@ EXCEPT !.status = Str(submitted),
                       !.submittedAt = Num(now),
                       !.explanation = Str(trim(completionData["explanation"].str)),
                       !.workLink = IF Falsy(completionData, "workLink")
                                      THEN NULL
                                      ELSE Str(trim(link.str))]])

\* WorkItem.approve as it would be if it did not record the reviewer.
WorkItem_approve_noReviewer(tbl, us, id, reviewData, now) ==
  WorkItem_update(tbl, us, id,
    [status |-> Str(approved),
     reviewedAt |-> Num(now),
     reviewNotes |-> reviewData.reviewNotes])

\* WorkItem.approve
WorkItem_approve(tbl, us, id, reviewData, now) ==
  WorkItem_update(tbl, us, id,
    [status |-> Str(approved),
     reviewedAt |-> Num(now),
     reviewNotes |-> reviewData.reviewNotes,
     reviewedBy |-> reviewData.reviewedBy])

\* WorkItem.reject as it would be if it kept the submission, as approve does.
WorkItem_reject_keepsSubmission(tbl, us, id, reviewData, now) ==
  WorkItem_update(tbl, us, id,
    [status |-> Str(rejected),
     reviewedAt |-> Num(now),
     reviewNotes |-> reviewData.reviewNotes,
     reviewedBy |-> reviewData.reviewedBy])

\* WorkItem.reject
WorkItem_reject(tbl, us, id, reviewData, now) ==
  IF reviewData.reviewNotes = NULL \/ reviewData.reviewNotes = Str(<<>>)
    THEN Thrown(tbl)
    ELSE WorkItem_update(tbl, us, id,
           [status |-> Str(rejected),
            reviewedAt |-> Num(now),
            reviewNotes |-> reviewData.reviewNotes,
            reviewedBy |-> reviewData.reviewedBy,
            submittedAt |-> NULL,
            explanation |-> NULL,
            workLink |-> NULL])

\* Longest task WorkItem.create accepts.
MaxTaskLength == 200

\* WorkItem.create: validates, then INSERTs the trimmed fields; the other
\* columns take their defaults.
WorkItem_create(tbl, us, id, workItemData, now) ==
  LET row == [c \in Columns |->
                CASE c = "workerId" -> workItemData.workerId
                  [] c = "task" -> Str(trim(workItemData.task.str))
                  [] c = "description" -> Str(trim(workItemData.description.str))
                  [] c = "instructions" -> Str(trim(workItemData.instructions.str))
                  [] c = "deadline" -> workItemData.deadline
                  [] c = "status" -> workItemData.status
                  [] c = "assignedBy" -> workItemData.assignedBy
                  [] c = "assignedAt" -> Num(now)
                  [] OTHER -> NULL]
  IN  IF ~Falsy(workItemData, "task") /\ Len(workItemData.task.str) > MaxTaskLength
        THEN Thrown(tbl)
      ELSE IF \E k \in {"workerId", "task", "instructions", "deadline", "assignedBy"} :
                Falsy(workItemData, k)
        THEN Thrown(tbl)
      ELSE IF workItemData.status.str \notin StatusValues THEN Thrown(tbl)
      ELSE IF ~initializeDatabase(row, us) THEN Thrown(tbl)
      ELSE Returned(tbl @@ (id :> row))

\* The identity summary findById attaches for a user column: the id stored
\* in the row; name and email come from the LEFT JOIN and are there only if
\* the user is.
Summary(ref, us) == [id |-> ref, joined |-> ref.num \in DOMAIN us]

\* WorkItem.findById as it would be if it joined the worker on assignedBy and
\* the assigner on workerId.
WorkItem_findById_swapped(tbl, us, id) ==
  IF id \notin DOMAIN tbl THEN NULL
  ELSE [id |-> id,
        row |-> tbl[id],
        worker |-> Summary(tbl[id].assignedBy, us),
        assignedByUser |-> Summary(tbl[id].workerId, us),
        reviewedByUser |-> IF tbl[id].reviewedBy = NULL THEN NULL
                           ELSE Summary(tbl[id].reviewedBy, us)]

\* WorkItem.findById: null, or the row with its identity summaries.
WorkItem_findById(tbl, us, id) ==
  IF id \notin DOMAIN tbl THEN NULL
  ELSE [id |-> id,
        row |-> tbl[id],
        worker |-> Summary(tbl[id].workerId, us),
        assignedByUser |-> Summary(tbl[id].assignedBy, us),
        reviewedByUser |-> IF tbl[id].reviewedBy = NULL THEN NULL
                           ELSE Summary(tbl[id].reviewedBy, us)]

\* WorkItem.findAll: the rows that pass every filter that is given and truthy.
\* The JSON array is modelled by the set of its elements; ORDER BY is not.
WorkItem_findAll(tbl, us, filters) ==
  {WorkItem_findById(tbl, us, id) :
     id \in {i \in DOMAIN tbl :
               /\ Falsy(filters, "workerId") \/ tbl[i].workerId = filters["workerId"]
               /\ Falsy(filters, "status") \/ tbl[i].status = filters["status"]
               /\ Falsy(filters, "assignedBy")
                    \/ tbl[i].assignedBy = filters["assignedBy"]}}

\* WorkItem.count
WorkItem_count(tbl, filters) ==
  Cardinality({i \in DOMAIN tbl :
                 /\ Falsy(filters, "status") \/ tbl[i].status = filters["status"]
                 /\ Falsy(filters, "workerId")
                      \/ tbl[i].workerId = filters["workerId"]})

\* The number a string of decimal digits denotes.
RECURSIVE decimal(_)
decimal(s) ==
  IF s = <<>> THEN 0
  ELSE 10 * decimal(SubSeq(s, 1, Len(s) - 1))
         + (CHOOSE n \in 0..9 :
              <<"0", "1", "2", "3", "4", "5", "6", "7", "8", "9">>[n + 1] = s[Len(s)])

NaN == [nan |-> TRUE]

\* new Date(v).getTime(): the number itself, NaN for a string that is no
\* date; a date string orders as its digits do.
getTime(v) ==
  IF "num" \in DOMAIN v THEN v
  ELSE IF ~validDate(v) THEN NaN
  ELSE Num(decimal(SelectSeq(v.str, LAMBDA c : c \in Digits)))

\* WorkItem.isOverdue as it would be if it looked at the deadline only.
isOverdue_anyStatus(workItem, now) ==
  getTime(workItem.deadline) # NaN /\ getTime(workItem.deadline).num < now

\* WorkItem.isOverdue: a comparison with NaN is false.
isOverdue(workItem, now) ==
  /\ getTime(workItem.deadline) # NaN
  /\ getTime(workItem.deadline).num < now
  /\ workItem.status \in {Str(pending), Str(rejected)}

-----------------------------------------------------------------------------
(* models/User.js *)

lowerCase ==
  <<"a", "b", "c", "d", "e", "f", "g", "h", "i", "j", "k", "l", "m",
    "n", "o", "p", "q", "r", "s", "t", "u", "v", "w", "x", "y", "z">>
upperCase ==
  <<"A", "B", "C", "D", "E", "F", "G", "H", "I", "J", "K", "L", "M",
    "N", "O", "P", "Q", "R", "S", "T", "U", "V", "W", "X", "Y", "Z">>

\* String.prototype.toLowerCase on the characters
toLowerCase(s) ==
  [i \in 1..Len(s) |->
     IF \E k \in DOMAIN upperCase : upperCase[k] = s[i]
       THEN lowerCase[CHOOSE k \in DOMAIN upperCase : upperCase[k] = s[i]]
       ELSE s[i]]

\* \w of a regular expression
WordChars ==
  {lowerCase[k] : k \in DOMAIN lowerCase} \cup {upperCase[k] : k \in DOMAIN upperCase}
    \cup Digits \cup {"_"}

\* \w+([.-]?\w+)* matches all of s: word characters with single dots or
\* dashes between them.
dottedWords(s) ==
  /\ s # <<>>
  /\ s[1] \in WordChars
  /\ s[Len(s)] \in WordChars
  /\ \A i \in DOMAIN s : s[i] \in WordChars \cup {".", "-"}
  /\ \A i \in 1..(Len(s) - 1) : s[i] \in WordChars \/ s[i + 1] \in WordChars

\* (\.\w{2,3})+ matches all of s
RECURSIVE dotSuffixes(_)
dotSuffixes(s) ==
  /\ s # <<>>
  /\ s[1] = "."
  /\ \E k \in {2, 3} :
       /\ Len(s) >= k + 1
       /\ \A i \in 2..(k + 1) : s[i] \in WordChars
       /\ (Len(s) = k + 1 \/ dotSuffixes(SubSeq(s, k + 2, Len(s))))

\* /^\w+([.-]?\w+)*@\w+([.-]?\w+)*(\.\w{2,3})+$/ .test(s)
emailRegex(s) ==
  \E at \in DOMAIN s :
    /\ s[at] = "@"
    /\ dottedWords(SubSeq(s, 1, at - 1))
    /\ \E j \in (at + 1)..(Len(s) - 1) :
         /\ dottedWords(SubSeq(s, at + 1, j))
         /\ dotSuffixes(SubSeq(s, j + 1, Len(s)))

\* email.toLowerCase().trim()
normalizeEmail(s) == trim(toLowerCase(s))

\* WHERE email = ?: the users whose stored email is the value.
emailOwners(us, email) == {u \in DOMAIN us : us[u].email = Str(email)}

\* User.findByEmail: the id of the user with that email, 0 when there is none.
User_findByEmail(us, email) ==
  IF emailOwners(us, normalizeEmail(email)) = {} THEN 0
  ELSE CHOOSE u \in emailOwners(us, normalizeEmail(email)) : TRUE

MaxNameLength == 100
Roles == {"admin", "worker"}

\* bcrypt.hash: the stored credential is not the password.
bcryptHash(password) == [hash |-> password]

\* What User.create hands back: the table after the call and the message of
\* the error it threw, empty when it returned.
Created(us) == [users |-> us, error |-> ""]
Raised(us, message) == [users |-> us, error |-> message]

\* User.create; the INSERT fails on an email another row holds (UNIQUE).
User_create(us, id, userData) ==
  IF ~Has(userData, "email") \/ ~Has(userData.email, "str")
       \/ ~emailRegex(userData.email.str)
    THEN Raised(us, "Please provide a valid email")
  ELSE IF ~Has(userData, "name") \/ ~Has(userData.name, "str")
    THEN Raised(us, "Cannot read properties of undefined")
  ELSE IF Len(userData.name.str) > MaxNameLength
    THEN Raised(us, "Name cannot be longer than 100 characters")
  ELSE IF Has(userData, "role") /\ userData.role \notin Roles
    THEN Raised(us, "Role must be either admin or worker")
  ELSE IF emailOwners(us, normalizeEmail(userData.email.str)) # {}
    THEN Raised(us, "User already exists")
  ELSE Created(us @@ (id :> [name |-> userData.name,
                             email |-> Str(normalizeEmail(userData.email.str)),
                             password |-> userData.password,
                             role |-> IF Has(userData, "role") THEN userData.role
                                      ELSE "worker",
                             isActive |-> TRUE]))

\* The allow-list as it would be with the role on it.
userAllowedFields_withRole == {"name", "email", "isActive", "lastLogin", "role"}

userAllowedFields == {"name", "email", "isActive", "lastLogin"}

\* The value User.update binds for a key: the email lower-cased and trimmed,
\* every other value as it is.
userParam(updateData, f) ==
  IF f = "email" THEN Str(normalizeEmail(updateData[f].str)) ELSE updateData[f]

\* User.update throws: an email that is no string, no allow-listed key, or an
\* email that another row holds.
User_update_throws(us, id, updateData) ==
  \/ Has(updateData, "email") /\ ~Has(updateData.email, "str")
  \/ DOMAIN updateData \cap userAllowedFields = {}
  \/ /\ id \in DOMAIN us
     /\ Has(updateData, "email")
     /\ emailOwners(us, normalizeEmail(updateData.email.str)) \ {id} # {}

\* User.update as it would be with the email bound as it was given.
User_update_rawEmail(us, id, updateData) ==
  IF DOMAIN updateData \cap userAllowedFields = {} \/ id \notin DOMAIN us THEN us
  ELSE IF Has(updateData, "email") /\ emailOwners(us, updateData.email.str) \ {id} # {}
    THEN us
  ELSE [us EXCEPT ![id] =
         [f \in DOMAIN us[id] |->
            IF f \in DOMAIN updateData \cap userAllowedFields
              THEN updateData[f] ELSE us[id][f]]]

\* User.update: UPDATE users SET <allow-listed keys> WHERE id = ?
User_update(us, id, updateData) ==
  IF User_update_throws(us, id, updateData) \/ id \notin DOMAIN us THEN us
  ELSE [us EXCEPT ![id] =
         [f \in DOMAIN us[id] |->
            IF f \in DOMAIN updateData \cap userAllowedFields
              THEN userParam(updateData, f) ELSE us[id][f]]]

\* What User.delete hands back: both tables after the call and whether it
\* threw.
Deleted(threw, us, tbl) == [threw |-> threw, users |-> us, items |-> tbl]

\* User.delete as it would be if the worker's items stayed behind.
User_delete_noCascade(us, tbl, id) ==
  Deleted(FALSE, [u \in DOMAIN us \ {id} |-> us[u]], tbl)

\* User.delete: DELETE FROM users WHERE id = ?.  The items whose workerId is
\* the user go with it (ON DELETE CASCADE); an item left that names the user
\* in assignedBy or reviewedBy makes the statement fail.
User_delete(us, tbl, id) ==
  LET kept == [i \in {j \in DOMAIN tbl : tbl[j].workerId # Num(id)} |-> tbl[i]]
  IN  IF \E i \in DOMAIN kept :
           kept[i].assignedBy = Num(id) \/ kept[i].reviewedBy = Num(id)
        THEN Deleted(TRUE, us, tbl)
        ELSE Deleted(FALSE, [u \in DOMAIN us \ {id} |-> us[u]], kept)

-----------------------------------------------------------------------------
(* routes/work.js *)

\* What a handler did besides answering, one entry per await that reaches
\* outside it: the write to work_items, a sendTaskNotification call, a
\* createCalendarEvent call.
Wrote(id) == [kind |-> "write", ref |-> id]
Mailed(userId) == [kind |-> "mail", ref |-> userId]
Calendared(userId) == [kind |-> "calendar", ref |-> userId]

\* What a route leaves behind: the response it sent, the table and what it
\* did on the way.  Sent is a route that returned before any write.
Sent(reply, tbl) == [res |-> reply, items |-> tbl, log |-> <<>>]
Committed(reply, tbl, id, calls) ==
  [res |-> reply, items |-> tbl, log |-> <<Wrote(id)>> \o calls]

\* sendTaskNotification: how the call ends, "done" or "throws".  It returns
\* early when no transporter is configured and catches a sendMail failure.
sendTaskNotification(env) ==
  IF env.transporter = "unset" THEN "done"
  ELSE IF env.transporter = "rejects" THEN "done"
  ELSE "done"

\* createCalendarEvent: how the call ends, "done" or "throws".  Only
\* calendar.events.insert runs inside its try block.
createCalendarEvent(workItem, env) ==
  IF env.tokens = "lookupFails" THEN "throws"
  ELSE IF env.tokens = "unlinked" THEN "done"
  ELSE IF env.oauth = "unset" THEN "done"
  ELSE IF env.oauth = "throws" THEN "throws"
  ELSE IF ~validDate(workItem.deadline) THEN "throws"
  ELSE "done"

NotFound == Reply(404, "Work item not found")
AccessDenied == Reply(403, "Access denied")
AdminRequired == Reply(403, "Admin access required")
MustBeSubmitted == Reply(400, "Work item must be submitted for review first")
AlreadyCompleted == Reply(400, "Task is already completed or under review")
ExplanationRequired == Reply(400, "Explanation is required")
ReviewNotesRequired == Reply(400, "Detailed review notes are required when rejecting work (minimum 10 characters)")
FieldsRequired == Reply(400, "WorkerId, task, instructions, and deadline are required")
ServerError == Reply(500, "Server error")

\* Shortest review notes the reject route accepts, after trimming.
MinReviewNotes == 10

\* complete: the caller is neither an admin nor the assignee.
notOwner(user, workItem) ==
  user.role # "admin" /\ Num(user.id) # workItem.workerId

\* The status guard of complete as it would be without the approved case.
underReview_submittedOnly(workItem) == workItem.status = Str(submitted)

\* The status guard of complete as it would be if it also refused rejected items.
underReview_pendingOnly(workItem) == workItem.status # Str(pending)

\* complete: the item is already submitted or approved.
underReview(workItem) ==
  workItem.status = Str(submitted) \/ workItem.status = Str(approved)

\* The status guard of approve and reject as it would be if pending items
\* could be reviewed.
notSubmitted_pendingToo(workItem) ==
  workItem.status \notin {Str(submitted), Str(pending)}

\* approve, reject: the item is not waiting for review.
notSubmitted(workItem) == workItem.status # Str(submitted)

\* The arguments the routes hand to markCompleted, approve and reject.
completionArgs(body) ==
  LET link == IF Falsy(body, "workLink") THEN <<>> ELSE trim(body["workLink"].str)
  IN  [explanation |-> Str(trim(body["explanation"].str)),
       workLink |-> IF link = <<>> THEN NULL ELSE Str(link)]

approveArgs(user, body) ==
  [reviewNotes |-> IF Falsy(body, "reviewNotes") THEN Str(<<>>) ELSE body["reviewNotes"],
   reviewedBy |-> Num(user.id)]

rejectArgs(user, body) ==
  [reviewNotes |-> Str(trim(body["reviewNotes"].str)),
   reviewedBy |-> Num(user.id)]

\* router.post('/assign').  env is what the mail transporter and the calendar
\* service do when called.
post_assign(tbl, us, id, user, body, now, env) ==
  IF ~requireAdmin(user) THEN Sent(AdminRequired, tbl)
  ELSE IF \E k \in {"workerId", "task", "instructions", "deadline"} : Falsy(body, k)
    THEN Sent(FieldsRequired, tbl)
  ELSE
    LET created ==
          WorkItem_create(tbl, us, id,
            [workerId |-> body["workerId"],
             task |-> body["task"],
             description |-> IF Falsy(body, "description")
                               THEN Str(<<>>) ELSE body["description"],
             instructions |-> body["instructions"],
             deadline |-> body["deadline"],
             assignedBy |-> Num(user.id),
             status |-> Str(pending)], now)
        worker == body["workerId"].num
        calls == <<Mailed(worker), Calendared(worker)>>
    IN  IF created.threw THEN Sent(ServerError, tbl)
        ELSE IF worker \notin DOMAIN us
          THEN Committed(OK("Task assigned successfully"), created.items, id, <<>>)
        ELSE IF sendTaskNotification(env) = "throws"
          THEN Committed(ServerError, created.items, id, <<Mailed(worker)>>)
        ELSE IF createCalendarEvent(created.items[id], env) = "throws"
          THEN Committed(ServerError, created.items, id, calls)
        ELSE Committed(OK("Task assigned successfully"), created.items, id, calls)

\* router.put('/complete/:id') as it would be if the caller became the
\* item's worker.
put_complete_takesOver(tbl, id, user, body, now) ==
  IF Falsy(body, "explanation") \/ trim(body["explanation"].str) = <<>>
    THEN Sent(ExplanationRequired, tbl)
  ELSE IF id \notin DOMAIN tbl THEN Sent(NotFound, tbl)
  ELSE IF notOwner(user, tbl[id]) THEN Sent(AccessDenied, tbl)
  ELSE IF underReview(tbl[id]) THEN Sent(AlreadyCompleted, tbl)
  ELSE
    LET done == WorkItem_markCompleted(tbl, id, completionArgs(body), now)
    IN  IF done.threw
          THEN Sent(Reply(500, "Server error while completing task"), tbl)
          ELSE Committed(OK("Task submitted for review successfully"),
                         [done.items EXCEPT ![id].workerId = Num(user.id)], id, <<>>)

\* router.put('/complete/:id')
put_complete(tbl, id, user, body, now) ==
  IF Falsy(body, "explanation") \/ trim(body["explanation"].str) = <<>>
    THEN Sent(ExplanationRequired, tbl)
  ELSE IF id \notin DOMAIN tbl THEN Sent(NotFound, tbl)
  ELSE IF notOwner(user, tbl[id]) THEN Sent(AccessDenied, tbl)
  ELSE IF underReview(tbl[id]) THEN Sent(AlreadyCompleted, tbl)
  ELSE
    LET done == WorkItem_markCompleted(tbl, id, completionArgs(body), now)
    IN  IF done.threw
          THEN Sent(Reply(500, "Server error while completing task"), tbl)
          ELSE Committed(OK("Task submitted for review successfully"), done.items,
                         id, <<>>)

\* router.put('/approve/:id') as it would be if it notified the worker before
\* looking at the status of the item.
put_approve_notifiesFirst(tbl, us, id, user, body, now, env) ==
  IF ~requireAdmin(user) THEN Sent(AdminRequired, tbl)
  ELSE IF id \notin DOMAIN tbl THEN Sent(NotFound, tbl)
  ELSE IF notSubmitted(tbl[id])
    THEN [res |-> MustBeSubmitted, items |-> tbl,
          log |-> <<Mailed(tbl[id].workerId.num)>>]
  ELSE
    LET done == WorkItem_approve(tbl, us, id, approveArgs(user, body), now)
        worker == tbl[id].workerId.num
    IN  IF done.threw THEN Sent(ServerError, tbl)
        ELSE Committed(OK("Work approved successfully"), done.items, id,
                       <<Mailed(worker)>>)

\* router.put('/approve/:id')
put_approve(tbl, us, id, user, body, now, env) ==
  IF ~requireAdmin(user) THEN Sent(AdminRequired, tbl)
  ELSE IF id \notin DOMAIN tbl THEN Sent(NotFound, tbl)
  ELSE IF notSubmitted(tbl[id]) THEN Sent(MustBeSubmitted, tbl)
  ELSE
    LET done == WorkItem_approve(tbl, us, id, approveArgs(user, body), now)
        worker == tbl[id].workerId.num
    IN  IF done.threw THEN Sent(ServerError, tbl)
        ELSE IF worker \notin DOMAIN us
          THEN Committed(OK("Work approved successfully"), done.items, id, <<>>)
        ELSE IF sendTaskNotification(env) = "throws"
          THEN Committed(ServerError, done.items, id, <<Mailed(worker)>>)
        ELSE Committed(OK("Work approved successfully"), done.items, id,
                       <<Mailed(worker)>>)

\* router.put('/reject/:id') as it would be if any non-empty notes would do.
put_reject_anyNotes(tbl, us, id, user, body, now, env) ==
  IF ~requireAdmin(user) THEN Sent(AdminRequired, tbl)
  ELSE IF Falsy(body, "reviewNotes") THEN Sent(ReviewNotesRequired, tbl)
  ELSE IF id \notin DOMAIN tbl THEN Sent(NotFound, tbl)
  ELSE IF notSubmitted(tbl[id]) THEN Sent(MustBeSubmitted, tbl)
  ELSE
    LET done == WorkItem_reject(tbl, us, id, rejectArgs(user, body), now)
    IN  IF done.threw THEN Sent(ServerError, tbl)
        ELSE Committed(OK("Work rejected and returned for revision"), done.items,
                       id, <<Mailed(tbl[id].workerId.num)>>)

\* router.put('/reject/:id')
put_reject(tbl, us, id, user, body, now, env) ==
  IF ~requireAdmin(user) THEN Sent(AdminRequired, tbl)
  ELSE IF Falsy(body, "reviewNotes")
            \/ Len(trim(body["reviewNotes"].str)) < MinReviewNotes
    THEN Sent(ReviewNotesRequired, tbl)
  ELSE IF id \notin DOMAIN tbl THEN Sent(NotFound, tbl)
  ELSE IF notSubmitted(tbl[id]) THEN Sent(MustBeSubmitted, tbl)
  ELSE
    LET done == WorkItem_reject(tbl, us, id, rejectArgs(user, body), now)
        worker == tbl[id].workerId.num
    IN  IF done.threw THEN Sent(ServerError, tbl)
        ELSE IF worker \notin DOMAIN us
          THEN Committed(OK("Work rejected and returned for revision"), done.items,
                         id, <<>>)
        ELSE IF sendTaskNotification(env) = "throws"
          THEN Committed(ServerError, done.items, id, <<Mailed(worker)>>)
        ELSE Committed(OK("Work rejected and returned for revision"), done.items,
                       id, <<Mailed(worker)>>)

\* router.put('/:id')
put_id(tbl, us, id, user, body) ==
  IF ~requireAdmin(user) THEN Sent(AdminRequired, tbl)
  ELSE IF id \notin DOMAIN tbl THEN Sent(NotFound, tbl)
  ELSE
    LET done == WorkItem_update(tbl, us, id, body)
    IN  IF done.threw THEN Sent(ServerError, tbl)
        ELSE Committed(OK("Work item updated successfully"), done.items, id, <<>>)

\* router.delete('/:id')
delete_id(tbl, id, user) ==
  IF ~requireAdmin(user) THEN Sent(AdminRequired, tbl)
  ELSE IF id \notin DOMAIN tbl THEN Sent(NotFound, tbl)
  ELSE Committed(OK("Work item deleted successfully"), WorkItem_delete(tbl, id),
                 id, <<>>)

\* What a GET route answers: the response and its JSON payload.
Shown(kind, data) == [res |-> OK(""), view |-> [kind |-> kind, data |-> data]]
Refused(reply) == [res |-> reply, view |-> NoView]

\* parseInt: the number the leading digits denote, or NaN.
RECURSIVE leadingDigits(_)
leadingDigits(s) ==
  IF s # <<>> /\ Head(s) \in Digits THEN <<Head(s)>> \o leadingDigits(Tail(s))
  ELSE <<>>

parseInt(s) ==
  IF leadingDigits(s) = <<>> THEN NaN ELSE Num(decimal(leadingDigits(s)))

\* WHERE wi.id = ? with a text parameter: the INTEGER column matches the
\* number the text denotes, and no row when the text is not a number.
idParam(s) ==
  IF s # <<>> /\ leadingDigits(s) = s THEN decimal(s) ELSE 0

\* router.get('/') as it would be without the filter on the worker.
get_list_unfiltered(tbl, us, user) ==
  Shown("list", WorkItem_findAll(tbl, us, <<>>))

\* router.get('/')
get_list(tbl, us, user) ==
  IF user.role = "admin" THEN Shown("list", WorkItem_findAll(tbl, us, <<>>))
  ELSE Shown("list", WorkItem_findAll(tbl, us, [workerId |-> Num(user.id)]))

\* router.get('/submitted')
get_submitted(tbl, us, user) ==
  IF ~requireAdmin(user) THEN Refused(AdminRequired)
  ELSE Shown("list", WorkItem_findAll(tbl, us, [status |-> Str(submitted)]))

\* router.get('/worker/:workerId')
get_worker(tbl, us, user, param) ==
  LET workerId == parseInt(param)
  IN  IF user.role # "admin" /\ Num(user.id) # workerId THEN Refused(AccessDenied)
      ELSE Shown("list", WorkItem_findAll(tbl, us,
                   IF workerId = NaN THEN <<>> ELSE [workerId |-> workerId]))

\* router.get('/:id') as it would be without the check on the worker.
get_id_open(tbl, us, user, param) ==
  LET workItem == WorkItem_findById(tbl, us, idParam(param))
  IN  IF workItem = NULL THEN Refused(NotFound) ELSE Shown("item", workItem)

\* router.get('/:id')
get_id(tbl, us, user, param) ==
  LET workItem == WorkItem_findById(tbl, us, idParam(param))
  IN  IF workItem = NULL THEN Refused(NotFound)
      ELSE IF user.role # "admin" /\ Num(user.id) # workItem.row.workerId
        THEN Refused(AccessDenied)
      ELSE Shown("item", workItem)

\* router.get('/stats')
get_stats(tbl, user) ==
  IF ~requireAdmin(user) THEN Refused(AdminRequired)
  ELSE Shown("stats",
         [totalTasks |-> WorkItem_count(tbl, <<>>),
          pendingTasks |-> WorkItem_count(tbl, [status |-> Str(pending)]),
          submittedTasks |-> WorkItem_count(tbl, [status |-> Str(submitted)]),
          approvedTasks |-> WorkItem_count(tbl, [status |-> Str(approved)]),
          rejectedTasks |-> WorkItem_count(tbl, [status |-> Str(rejected)])])

workerPath == <<"w", "o", "r", "k", "e", "r">>
statsPath == <<"s", "t", "a", "t", "s">>

\* The router on a GET: the first route, in the order of registration, whose
\* pattern matches the path (the sequence of its segments) handles it.
router_get(tbl, us, user, path) ==
  IF path = <<>> THEN get_list(tbl, us, user)
  ELSE IF path = <<submitted>> THEN get_submitted(tbl, us, user)
  ELSE IF Len(path) = 2 /\ path[1] = workerPath THEN get_worker(tbl, us, user, path[2])
  ELSE IF Len(path) = 1 THEN get_id(tbl, us, user, path[1])
  ELSE IF path = <<statsPath>> THEN get_stats(tbl, user)
  ELSE Refused(Reply(404, "Not Found"))

-----------------------------------------------------------------------------
(* routes/users.js *)

\* router.delete('/:id') of the users routes
delete_user(us, tbl, user, id) ==
  IF ~requireAdmin(user) THEN Deleted(FALSE, us, tbl) @@ [res |-> AdminRequired]
  ELSE IF id = user.id
    THEN Deleted(FALSE, us, tbl) @@ [res |-> Reply(400, "Cannot delete your own account")]
  ELSE IF id \notin DOMAIN us
    THEN Deleted(FALSE, us, tbl) @@ [res |-> Reply(404, "User not found")]
  ELSE
    LET done == User_delete(us, tbl, id)
    IN  IF done.threw THEN done @@ [res |-> ServerError]
        ELSE done @@ [res |-> OK("User deleted successfully")]

\* What a users or auth route leaves behind: its response and the users table.
Answered(reply, us) == [res |-> reply, users |-> us]

\* router.post('/register') of routes/auth.js
post_register(us, id, user, body) ==
  IF ~requireAdmin(user) THEN Answered(AdminRequired, us)
  ELSE IF ~Has(body, "password")
    THEN Answered(Reply(400, "Illegal arguments: undefined, number"), us)
  ELSE
    LET created == User_create(us, id,
                     [k \in DOMAIN body \cap {"name", "email", "role"} |-> body[k]]
                       @@ [password |-> bcryptHash(body["password"])])
    IN  IF created.error # "" THEN Answered(Reply(400, created.error), us)
        ELSE Answered(OK(""), created.users)

\* router.put('/profile') up to user.update: the answer it ends with, or
\* status 0 when the email is free for the caller and the caller exists.
profile_checks(us, user, body) ==
  IF ~Falsy(body, "email") /\ ~Has(body["email"], "str") THEN ServerError
  ELSE IF ~Falsy(body, "email")
            /\ User_findByEmail(us, body["email"].str) \notin {0, user.id}
    THEN Reply(400, "Email already taken")
  ELSE IF user.id \notin DOMAIN us THEN Reply(404, "User not found")
  ELSE Reply(0, "")

\* const updateData = {}; if (name) ...; if (email) ...
profileData(body) == [k \in {f \in {"name", "email"} : ~Falsy(body, f)} |-> body[k]]

\* router.put('/profile') from user.update on
profile_update(us, user, body) ==
  IF User_update_throws(us, user.id, profileData(body)) THEN Answered(ServerError, us)
  ELSE Answered(OK("Profile updated successfully"),
                User_update(us, user.id, profileData(body)))

-----------------------------------------------------------------------------
(* Requests *)

\* The accounts of the users table: one admin and two workers.
Accounts ==
  (1 :> [role |-> "admin", isActive |-> TRUE])
    @@ (2 :> [role |-> "worker", isActive |-> TRUE])
    @@ (3 :> [role |-> "worker", isActive |-> TRUE])

\* The principals authenticateToken yields: the id and role a token carries.
Principals == {[id |-> u, role |-> users[u].role] : u \in DOMAIN users}

ItemIds == 1..MaxItems

Done == <<"D", "o", "n", "e">>
FixedPadded == <<" ", "F", "i", "x", "e", "d", " ">>
Blank == <<" ", " ">>
GoodLink == <<"h", "t", "t", "p", "s", ":", "/", "/", "a", "b", ".", "c", "/", "x">>
GoodLinkPadded == <<" ", "h", "t", "t", "p", "s", ":", "/", "/", "a", "b", ".", "c", "/", "x", " ">>
BadLink == <<"n", "o", "t", "-", "a", "-", "u", "r", "l">>
Redo == <<"R", "e", "d", "o">>
RedoPadded == <<" ", " ", " ", " ", "R", "e", "d", "o", " ", " ", " ", " ">>
NeedsMoreDetail == <<"N", "e", "e", "d", "s", " ", "m", "o", "r", "e", " ", "d", "e", "t", "a", "i", "l">>
NeedsMoreDetailPadded == <<" ", "N", "e", "e", "d", "s", " ", "m", "o", "r", "e", " ", "d", "e", "t", "a", "i", "l", " ">>
WriteReport == <<"W", "r", "i", "t", "e", " ", "r", "e", "p", "o", "r", "t">>
UseTemplateA == <<"U", "s", "e", " ", "t", "e", "m", "p", "l", "a", "t", "e", " ", "A", " ">>
archived == <<"a", "r", "c", "h", "i", "v", "e", "d">>

AssignBodies ==
  {[workerId |-> Num(w), task |-> Str(WriteReport),
    instructions |-> Str(UseTemplateA), deadline |-> Num(2)] : w \in {2, 9}}
  \cup {[workerId |-> Num(2), instructions |-> Str(UseTemplateA),
         deadline |-> Num(2)]}

CompleteBodies ==
  {[explanation |-> Str(Done)],
   [explanation |-> Str(FixedPadded), workLink |-> Str(GoodLinkPadded)],
   [explanation |-> Str(Done), workLink |-> Str(Blank)],
   [explanation |-> Str(Done), workLink |-> Str(BadLink)],
   [explanation |-> Str(Blank)],
   <<>>}

ApproveBodies == {<<>>, [reviewNotes |-> Str(NeedsMoreDetailPadded)]}

RejectBodies ==
  {<<>>} \cup {[reviewNotes |-> Str(n)] :
                 n \in {Blank, Redo, RedoPadded, NeedsMoreDetail, NeedsMoreDetailPadded}}

UpdateBodies ==
  {[status |-> s] : s \in {Str(v) : v \in StatusValues \cup {archived}} \cup {NULL}}
  \cup {<<>>, [workerId |-> Num(3)]}

\* What the mail transporter and the calendar service do when called.
Service(transporter, tokens, oauth, insert) ==
  [transporter |-> transporter, tokens |-> tokens, oauth |-> oauth,
   insert |-> insert]

\* Everything works and the worker's calendar is linked; or mail is rejected
\* and the lookup of the worker's calendar tokens fails.
Services ==
  {Service("working", "linked", "builds", "ok"),
   Service("rejects", "lookupFails", "builds", "ok")}

-----------------------------------------------------------------------------
(* The state machine: one action per route, the whole handler in one step *)

Request(op, user, id) == [op |-> op, user |-> user, id |-> id]

Init ==
  /\ users = Accounts
  /\ items = <<>>
  /\ nextId = 1
  /\ req = Request("none", [id |-> 0, role |-> "none"], 0)
  /\ res = Reply(0, "")
  /\ outbox = <<>>
  /\ inflight = {}
  /\ view = NoView

Handle(op, user, id, sent) ==
  /\ items' = sent.items
  /\ res' = sent.res
  /\ req' = Request(op, user, id)
  /\ outbox' = sent.log
  /\ view' = NoView
  /\ UNCHANGED <<users, inflight>>

Assign(user, body, now, env) ==
  /\ nextId <= MaxItems
  /\ LET sent == post_assign(items, users, nextId, user, body, now, env)
     IN  /\ Handle("assign", user, nextId, sent)
         /\ nextId' = IF nextId \in DOMAIN sent.items THEN nextId + 1 ELSE nextId

Complete(user, id, body, now) ==
  /\ Handle("complete", user, id, put_complete(items, id, user, body, now))
  /\ UNCHANGED nextId

Approve(user, id, body, now, env) ==
  /\ Handle("approve", user, id, put_approve(items, users, id, user, body, now, env))
  /\ UNCHANGED nextId

Reject(user, id, body, now, env) ==
  /\ Handle("reject", user, id, put_reject(items, users, id, user, body, now, env))
  /\ UNCHANGED nextId

Update(user, id, body) ==
  /\ Handle("update", user, id, put_id(items, users, id, user, body))
  /\ UNCHANGED nextId

Delete(user, id) ==
  /\ Handle("delete", user, id, delete_id(items, id, user))
  /\ UNCHANGED nextId

Next ==
  \/ \E user \in Principals, body \in AssignBodies, now \in Times,
        env \in Services : Assign(user, body, now, env)
  \/ \E user \in Principals, id \in ItemIds, body \in CompleteBodies, now \in Times :
        Complete(user, id, body, now)
  \/ \E user \in Principals, id \in ItemIds, body \in ApproveBodies, now \in Times,
        env \in Services : Approve(user, id, body, now, env)
  \/ \E user \in Principals, id \in ItemIds, body \in RejectBodies, now \in Times,
        env \in Services : Reject(user, id, body, now, env)
  \/ \E user \in Principals, id \in ItemIds, body \in UpdateBodies :
        Update(user, id, body)
  \/ \E user \in Principals, id \in ItemIds : Delete(user, id)

Spec == Init /\ [][Next]_vars

-----------------------------------------------------------------------------
(* The lifecycle alone: assign, complete, approve, reject and delete, one   *)
(* request at a time and no generic update.                                 *)

NextLifecycle ==
  \/ \E user \in Principals, body \in AssignBodies, now \in Times,
        env \in Services : Assign(user, body, now, env)
  \/ \E user \in Principals, id \in ItemIds, body \in CompleteBodies, now \in Times :
        Complete(user, id, body, now)
  \/ \E user \in Principals, id \in ItemIds, body \in ApproveBodies, now \in Times,
        env \in Services : Approve(user, id, body, now, env)
  \/ \E user \in Principals, id \in ItemIds, body \in RejectBodies, now \in Times,
        env \in Services : Reject(user, id, body, now, env)
  \/ \E user \in Principals, id \in ItemIds : Delete(user, id)

SpecLifecycle == Init /\ [][NextLifecycle]_vars

-----------------------------------------------------------------------------
(* The same routes over more inputs: edits of every allow-listed column,   *)
(* accounts that are deactivated, deadlines that are not dates, and every  *)
(* way the mail and calendar services answer.                              *)

soon == <<"s", "o", "o", "n">>

WideAssignBodies ==
  AssignBodies
  \cup {[workerId |-> Num(3), task |-> Str(WriteReport),
          instructions |-> Str(UseTemplateA), deadline |-> Num(2)],
         [workerId |-> Num(2), task |-> Str(WriteReport),
          instructions |-> Str(UseTemplateA), deadline |-> Str(soon)],
         [workerId |-> Num(2), task |-> Str(Blank),
          instructions |-> Str(UseTemplateA), deadline |-> Num(2)]}

WideUpdateBodies ==
  UpdateBodies
  \cup {[reviewNotes |-> Str(NeedsMoreDetailPadded)],
         [reviewedBy |-> Num(1)],
         [reviewedAt |-> NULL],
         [workLink |-> Str(BadLink)],
         [task |-> Str(Blank)]}

WideServices ==
  Services
  \cup {Service("unset", "unlinked", "builds", "ok"),
         Service("working", "linked", "unset", "ok"),
         Service("working", "linked", "throws", "ok"),
         Service("working", "linked", "builds", "fails")}

ProfileBodies == {[isActive |-> FALSE], [role |-> "admin"]}

\* An account is edited through User.update.
Profile(id, updateData) ==
  /\ users' = User_update(users, id, updateData)
  /\ req' = Request("profile", [id |-> 0, role |-> "none"], id)
  /\ res' = OK("")
  /\ outbox' = <<>>
  /\ view' = NoView
  /\ UNCHANGED <<items, nextId, inflight>>

NextWide ==
  \/ \E user \in Principals, body \in WideAssignBodies, now \in Times,
        env \in WideServices : Assign(user, body, now, env)
  \/ \E user \in Principals, id \in ItemIds, body \in CompleteBodies, now \in Times :
        Complete(user, id, body, now)
  \/ \E user \in Principals, id \in ItemIds, body \in ApproveBodies, now \in Times,
        env \in WideServices : Approve(user, id, body, now, env)
  \/ \E user \in Principals, id \in ItemIds, body \in RejectBodies, now \in Times,
        env \in WideServices : Reject(user, id, body, now, env)
  \/ \E user \in Principals, id \in ItemIds, body \in WideUpdateBodies :
        Update(user, id, body)
  \/ \E user \in Principals, id \in ItemIds : Delete(user, id)
  \/ \E body \in ProfileBodies : Profile(3, body)

SpecWide == Init /\ [][NextWide]_vars

-----------------------------------------------------------------------------
(* Overlapping requests.  A complete, approve or reject handler awaits      *)
(* findById, checks what it read and issues its UPDATE; the UPDATE of one   *)
(* request may run after the SELECT of another has returned.  Read is the   *)
(* handler up to the point where its checks have passed, Write is its       *)
(* UPDATE and its response.                                                 *)

\* Bound of the model: requests between their SELECT and their UPDATE.
MaxInflight == 2

Admin == [id |-> 1, role |-> "admin"]
Assignee == [id |-> 2, role |-> "worker"]

\* The requests that overlap: approvals with and without notes, a rejection,
\* and completions by the assignee.
RaceRequests ==
  {[op |-> "approve", user |-> Admin, body |-> <<>>],
   [op |-> "approve", user |-> Admin, body |-> [reviewNotes |-> Str(Done)]],
   [op |-> "reject", user |-> Admin, body |-> [reviewNotes |-> Str(NeedsMoreDetail)]],
   [op |-> "complete", user |-> Assignee, body |-> [explanation |-> Str(Done)]],
   [op |-> "complete", user |-> Assignee,
    body |-> [explanation |-> Str(FixedPadded), workLink |-> Str(GoodLink)]]}

\* Mail and calendar both work.
Working == Service("working", "linked", "builds", "ok")

\* The answers of a request whose model call returned, and whose model call
\* threw.
Success(op) ==
  CASE op = "approve" -> OK("Work approved successfully")
    [] op = "reject" -> OK("Work rejected and returned for revision")
    [] op = "complete" -> OK("Task submitted for review successfully")
    [] op = "update" -> OK("Work item updated successfully")

Failure(op) ==
  IF op = "complete" THEN Reply(500, "Server error while completing task")
  ELSE ServerError

\* The route run on the table as the request's findById returned it.
Route(r, tbl, us, id, now, env) ==
  CASE r.op = "approve" -> put_approve(tbl, us, id, r.user, r.body, now, env)
    [] r.op = "reject" -> put_reject(tbl, us, id, r.user, r.body, now, env)
    [] r.op = "complete" -> put_complete(tbl, id, r.user, r.body, now)
    [] r.op = "update" -> put_id(tbl, us, id, r.user, r.body)

\* The model call a request makes once its checks have passed, run on the
\* table as it is when the UPDATE executes.
ModelCall(r, tbl, us) ==
  CASE r.op = "approve" ->
         WorkItem_approve(tbl, us, r.id, approveArgs(r.user, r.body), r.now)
    [] r.op = "reject" ->
         WorkItem_reject(tbl, us, r.id, rejectArgs(r.user, r.body), r.now)
    [] r.op = "complete" ->
         WorkItem_markCompleted(tbl, r.id, completionArgs(r.body), r.now)
    [] r.op = "update" -> WorkItem_update(tbl, us, r.id, r.body)

\* A handler reads its item and its checks pass: its UPDATE is on its way.
Read(r, id, now) ==
  /\ Cardinality(inflight) < MaxInflight
  /\ Route(r, items, users, id, now, Working).res.status \notin {400, 403, 404}
  /\ inflight' = inflight \cup
       {[op |-> r.op, user |-> r.user, body |-> r.body, id |-> id, now |-> now,
         read |-> items[id]]}
  /\ UNCHANGED <<users, items, nextId, req, res, outbox, view>>

\* The UPDATE of a request in flight runs and the handler answers.
Write(r) ==
  /\ r \in inflight
  /\ LET done == ModelCall(r, items, users)
         worker == r.read.workerId.num
     IN  /\ items' = done.items
         /\ res' = IF done.threw THEN Failure(r.op) ELSE Success(r.op)
         /\ outbox' = IF done.threw THEN <<>>
                       ELSE IF r.op \in {"complete", "update"}
                                 \/ worker \notin DOMAIN users
                         THEN <<Wrote(r.id)>>
                       ELSE <<Wrote(r.id), Mailed(worker)>>
  /\ req' = Request(r.op, r.user, r.id)
  /\ inflight' = inflight \ {r}
  /\ view' = NoView
  /\ UNCHANGED <<users, nextId>>

NextRace ==
  \/ \E body \in AssignBodies, now \in Times, env \in Services :
        Assign(Admin, body, now, env)
  \/ \E r \in RaceRequests, id \in ItemIds, now \in Times :
        /\ r.op = "complete"
        /\ Complete(r.user, id, r.body, now)
  \/ \E r \in RaceRequests, id \in ItemIds, now \in Times : Read(r, id, now)
  \/ \E r \in inflight : Write(r)

SpecRace == Init /\ [][NextRace]_vars

-----------------------------------------------------------------------------
(* Reads: the GET routes and isOverdue, between assignments, submissions,   *)
(* reviews and deletions.                                                   *)

\* The times at which an item is asked whether it is overdue: before and
\* after the deadline of the items assigned.
Clock == {1, 3}

ReadAssignBodies ==
  {[workerId |-> Num(w), task |-> Str(WriteReport),
    instructions |-> Str(UseTemplateA), deadline |-> Num(2)] : w \in {2, 3}}

ReadCompleteBodies == {[explanation |-> Str(Done)], <<>>}

\* The paths requested: /, /submitted, /worker/2, /stats, /1 and /2.
Paths ==
  {<<>>, <<submitted>>, <<workerPath, <<"2">>>>, <<statsPath>>, <<<<"1">>>>, <<<<"2">>>>}

\* A GET request goes through the router.
Get(user, path) ==
  /\ LET shown == router_get(items, users, user, path)
     IN  /\ res' = shown.res
         /\ view' = shown.view
  /\ req' = [op |-> "get", user |-> user, id |-> 0, path |-> path]
  /\ outbox' = <<>>
  /\ UNCHANGED <<users, items, nextId, inflight>>

\* A stored item is asked whether it is overdue.
Overdue(id, now) ==
  /\ id \in DOMAIN items
  /\ req' = Request("isOverdue", [id |-> 0, role |-> "none"], id)
  /\ res' = OK("")
  /\ view' = [kind |-> "overdue",
              data |-> [at |-> now, overdue |-> isOverdue(items[id], now)]]
  /\ outbox' = <<>>
  /\ UNCHANGED <<users, items, nextId, inflight>>

NextRead ==
  \/ \E body \in ReadAssignBodies, now \in Times : Assign(Admin, body, now, Working)
  \/ \E user \in Principals, id \in ItemIds, body \in ReadCompleteBodies,
        now \in Times : Complete(user, id, body, now)
  \/ \E id \in ItemIds, now \in Times : Approve(Admin, id, <<>>, now, Working)
  \/ \E id \in ItemIds, now \in Times :
        Reject(Admin, id, [reviewNotes |-> Str(NeedsMoreDetail)], now, Working)
  \/ \E id \in ItemIds : Delete(Admin, id)
  \/ \E user \in Principals, path \in Paths : Get(user, path)
  \/ \E id \in ItemIds, now \in Clock : Overdue(id, now)

SpecRead == Init /\ [][NextRead]_vars

-----------------------------------------------------------------------------
(* Edits and rejections of one worker's items in every status: each caller  *)
(* sends every update body and every reject body.                           *)

EditAssignBody ==
  [workerId |-> Num(2), task |-> Str(WriteReport),
   instructions |-> Str(UseTemplateA), deadline |-> Num(2)]

NextEdit ==
  \/ \E now \in Times : Assign(Admin, EditAssignBody, now, Working)
  \/ \E id \in ItemIds, now \in Times :
        Complete(Assignee, id, [explanation |-> Str(Done)], now)
  \/ \E id \in ItemIds, now \in Times : Approve(Admin, id, <<>>, now, Working)
  \/ \E user \in Principals, id \in ItemIds, body \in RejectBodies,
        now \in Times, env \in Services : Reject(user, id, body, now, env)
  \/ \E user \in Principals, id \in ItemIds, body \in UpdateBodies :
        Update(user, id, body)

SpecEdit == Init /\ [][NextEdit]_vars

-----------------------------------------------------------------------------
(* Overlapping requests on one worker's items, with deletions: one request  *)
(* of each kind may be between its SELECT and its UPDATE while the item is  *)
(* reviewed, resubmitted, edited or deleted.                                *)

OverlapRequests ==
  {[op |-> "approve", user |-> Admin, body |-> <<>>],
   [op |-> "reject", user |-> Admin, body |-> [reviewNotes |-> Str(NeedsMoreDetail)]],
   [op |-> "complete", user |-> Assignee, body |-> [explanation |-> Str(Done)]],
   [op |-> "update", user |-> Admin, body |-> [description |-> Str(Done)]]}

NextOverlap ==
  \/ \E now \in Times : Assign(Admin, EditAssignBody, now, Working)
  \/ \E r \in OverlapRequests, id \in ItemIds, now \in Times : Read(r, id, now)
  \/ \E r \in inflight : Write(r)
  \/ \E id \in ItemIds : Delete(Admin, id)

SpecOverlap == Init /\ [][NextOverlap]_vars

\* The same without the generic update: submissions and reviews overlap
\* while items are deleted.
ReviewRequests ==
  {r \in OverlapRequests : r.op # "update"}
    \cup {[op |-> "approve", user |-> Admin, body |-> [reviewNotes |-> Str(Done)]]}

NextReview ==
  \/ \E now \in Times : Assign(Admin, EditAssignBody, now, Working)
  \/ \E r \in ReviewRequests, id \in ItemIds, now \in Times : Read(r, id, now)
  \/ \E r \in inflight : Write(r)
  \/ \E id \in ItemIds : Delete(Admin, id)

SpecReview == Init /\ [][NextReview]_vars

-----------------------------------------------------------------------------
(* Accounts come and go: an admin deletes users while items are assigned,   *)
(* submitted and reviewed.  A token outlives its account.                   *)

\* The accounts at the start: those of Accounts and a second admin.
Staff == Accounts @@ (4 :> [role |-> "admin", isActive |-> TRUE])

\* The tokens issued to the staff.
Tokens == {[id |-> u, role |-> Staff[u].role] : u \in DOMAIN Staff}

\* Assignments to worker 2 and to admin 1.
StaffAssignBodies ==
  {[workerId |-> Num(w), task |-> Str(WriteReport),
    instructions |-> Str(UseTemplateA), deadline |-> Num(2)] : w \in {1, 2}}

InitUsers ==
  /\ users = Staff
  /\ items = <<>>
  /\ nextId = 1
  /\ req = Request("none", [id |-> 0, role |-> "none"], 0)
  /\ res = Reply(0, "")
  /\ outbox = <<>>
  /\ inflight = {}
  /\ view = NoView

\* A DELETE on the users routes.
DeleteUser(user, id) ==
  /\ LET done == delete_user(users, items, user, id)
     IN  /\ users' = done.users
         /\ items' = done.items
         /\ res' = done.res
         /\ outbox' = IF done.res.status = 200 THEN <<Wrote(id)>> ELSE <<>>
  /\ req' = Request("deleteUser", user, id)
  /\ view' = NoView
  /\ UNCHANGED <<nextId, inflight>>

NextUsers ==
  \/ \E user \in Tokens, body \in StaffAssignBodies, now \in Times :
        Assign(user, body, now, Working)
  \/ \E user \in Tokens, id \in ItemIds, now \in Times :
        Complete(user, id, [explanation |-> Str(Done)], now)
  \/ \E user \in Tokens, id \in ItemIds, now \in Times :
        Reject(user, id, [reviewNotes |-> Str(NeedsMoreDetail)], now, Working)
  \/ \E user \in Tokens, id \in DOMAIN Staff : DeleteUser(user, id)

SpecUsers == InitUsers /\ [][NextUsers]_vars

-----------------------------------------------------------------------------
(* The users table: registrations by the admin, profile edits by every      *)
(* account, where the UPDATE of one edit may run after the checks of        *)
(* another have passed, and calls of User.update with any keys.             *)

MaxAccounts == 3

mailbox(c) == <<c, "@", "x", ".", "i", "o">>
Ann == <<"A", "n", "n">>
Bo == <<"B", "o">>
Cy == <<"C", "y">>
secret == <<"s", "3", "c", "r", "3", "t">>

\* The users table at the start: the admin and one worker.
Directory ==
  (1 :> [name |-> Str(Ann), email |-> Str(mailbox("a")),
         password |-> bcryptHash(secret), role |-> "admin", isActive |-> TRUE])
    @@ (2 :> [name |-> Str(Bo), email |-> Str(mailbox("b")),
              password |-> bcryptHash(secret), role |-> "worker", isActive |-> TRUE])

\* Registrations: a new address, the worker's address in capitals, and an
\* address with a space before it.
RegisterBodies ==
  {[name |-> Str(Cy), email |-> Str(mailbox("c")), password |-> secret],
   [name |-> Str(Cy), email |-> Str(mailbox("B")), password |-> secret],
   [name |-> Str(Cy), email |-> Str(<<" ">> \o mailbox("c")), password |-> secret]}

\* Profile edits: addresses in capitals and with spaces around them, a name,
\* and keys the route does not read.
ProfileEdits ==
  {[email |-> Str(mailbox("C") \o <<" ">>)],
   [email |-> Str(<<" ">> \o mailbox("B"))],
   [email |-> Str(mailbox("a"))],
   [role |-> "admin", password |-> bcryptHash(Cy)]}

\* Arguments of User.update beyond those the routes pass.
UpdateCalls ==
  {[role |-> "admin"],
   [password |-> bcryptHash(Cy)],
   [name |-> Str(Cy), role |-> "admin", password |-> bcryptHash(Cy)],
   [isActive |-> FALSE, password |-> bcryptHash(Cy)]}

InitAccounts ==
  /\ users = Directory
  /\ items = <<>>
  /\ nextId = 1
  /\ req = Request("none", [id |-> 0, role |-> "none"], 0)
  /\ res = Reply(0, "")
  /\ outbox = <<>>
  /\ inflight = {}
  /\ view = NoView

\* The id AUTOINCREMENT gives the next row; no row is deleted here.
nextUserId(us) == Cardinality(DOMAIN us) + 1

\* POST /register
Register(user, body) ==
  /\ Cardinality(DOMAIN users) < MaxAccounts
  /\ LET sent == post_register(users, nextUserId(users), user, body)
     IN  /\ users' = sent.users
         /\ res' = sent.res
  /\ req' = Request("register", user, nextUserId(users))
  /\ outbox' = <<>>
  /\ view' = NoView
  /\ UNCHANGED <<items, nextId, inflight>>

\* PUT /profile up to its UPDATE: it answers when a check fails, and is in
\* flight when its checks have passed.
ProfileRead(user, body) ==
  /\ Cardinality(inflight) < MaxInflight
  /\ LET reply == profile_checks(users, user, body)
     IN  IF reply.status = 0
           THEN /\ inflight' = inflight \cup {[op |-> "profile", user |-> user, body |-> body]}
                /\ UNCHANGED <<req, res>>
           ELSE /\ req' = Request("profile", user, user.id) @@ [body |-> body]
                /\ res' = reply
                /\ UNCHANGED inflight
  /\ UNCHANGED <<users, items, nextId, outbox, view>>

\* The UPDATE of a profile edit in flight runs and the handler answers.
ProfileWrite(r) ==
  /\ r \in inflight
  /\ LET sent == profile_update(users, r.user, r.body)
     IN  /\ users' = sent.users
         /\ res' = sent.res
  /\ req' = Request("profile", r.user, r.user.id) @@ [body |-> r.body]
  /\ inflight' = inflight \ {r}
  /\ UNCHANGED <<items, nextId, outbox, view>>

\* user.update(updateData) on a loaded user.
UpdateCall(id, updateData) ==
  /\ id \in DOMAIN users
  /\ users' = User_update(users, id, updateData)
  /\ req' = Request("update", [id |-> 0, role |-> "none"], id)
  /\ res' = IF User_update_throws(users, id, updateData) THEN ServerError ELSE OK("")
  /\ UNCHANGED <<items, nextId, outbox, inflight, view>>

NextAccounts ==
  \/ \E user \in Principals, body \in RegisterBodies : Register(user, body)
  \/ \E user \in Principals, body \in ProfileEdits : ProfileRead(user, body)
  \/ \E r \in inflight : ProfileWrite(r)
  \/ \E updateData \in UpdateCalls : UpdateCall(2, updateData)

SpecAccounts == InitAccounts /\ [][NextAccounts]_vars

-----------------------------------------------------------------------------
(* Error classes of the responses *)

Succeeded(r) == r.status = 200
Forbidden(r) == r.status = 403
Conflict(r) == r \in {MustBeSubmitted, AlreadyCompleted}

\* The item a request names, before and after the step.
Target == items[req'.id]
TargetAfter == items'[req'.id]

\* The columns a submission writes.
Submission(row) == <<row.submittedAt, row.explanation, row.workLink>>

\* The columns a review writes.
Review(row) == <<row.reviewedAt, row.reviewedBy, row.reviewNotes>>

\* The notification and calendar calls among the entries of a log.
Dispatched(log) ==
  {i \in DOMAIN log : log[i].kind \in {"mail", "calendar"}}

\* The caller may act on the item: an admin, or for complete its assignee.
Authorized(op, user, row) ==
  \/ user.role = "admin"
  \/ op = "complete" /\ Num(user.id) = row.workerId

\* The status of the item does not allow the operation.
WrongState(op, row) ==
  IF op = "complete" THEN row.status \in {Str(submitted), Str(approved)}
  ELSE row.status # Str(submitted)

\* An explanation that is present and not blank.
HasExplanation(body) ==
  Has(body, "explanation") /\ body["explanation"] # NULL
    /\ trim(body["explanation"].str) # <<>>

\* No link, a blank one, or one that is well formed once trimmed.
LinkAcceptable(body) ==
  \/ Falsy(body, "workLink")
  \/ trim(body["workLink"].str) = <<>>
  \/ urlRegex(trim(body["workLink"].str))

\* The link a complete request asks to store: the trimmed link, or null when
\* none or a blank one is given.
TrimmedLink(body) ==
  IF Falsy(body, "workLink") \/ trim(body["workLink"].str) = <<>>
    THEN NULL
    ELSE Str(trim(body["workLink"].str))

-----------------------------------------------------------------------------
(* Claims *)

\* C1: an approve or reject call by an admin on an existing item whose status
\* is not submitted is answered with the conflict error and changes nothing.
C1_ReviewOnlyFromSubmitted ==
  [][(/\ req'.op \in {"approve", "reject"}
      /\ req'.user.role = "admin"
      /\ req'.id \in DOMAIN items
      /\ Target.status # Str(submitted))
     => (Conflict(res') /\ items' = items)]_vars

\* C2: every stored item's status is one of pending, submitted, approved,
\* rejected.
C2_StatusEnumerated ==
  \A id \in DOMAIN items : items[id].status \in {Str(v) : v \in StatusValues}

\* C3: a complete call on an existing item by a worker who is not its assignee
\* is answered with the forbidden error and leaves the item unchanged.
C3_CompleteByStrangerForbidden ==
  [][(/\ req'.op = "complete"
      /\ req'.id \in DOMAIN items
      /\ req'.user.role # "admin"
      /\ Num(req'.user.id) # Target.workerId)
     => (Forbidden(res') /\ items' = items)]_vars

\* C4: assign, approve, reject, update and delete by a principal whose role is
\* not admin are answered with the forbidden error; no item is created,
\* changed or removed.
C4_AdminOnly ==
  [][(/\ req'.op \in {"assign", "approve", "reject", "update", "delete"}
      /\ req'.user.role # "admin")
     => (Forbidden(res') /\ items' = items /\ nextId' = nextId)]_vars

\* A worker's delete of an existing item was refused and the item is still there.
C4_Witness ==
  /\ req.op = "delete"
  /\ req.user.role = "worker"
  /\ Forbidden(res)
  /\ req.id \in DOMAIN items

\* C5: a successful reject leaves the item rejected, with submittedAt,
\* explanation and workLink null, reviewNotes the trimmed notes given and
\* reviewedBy the acting admin.
C5_RejectClears ==
  [][(req'.op = "reject" /\ Succeeded(res'))
     => \A body \in RejectBodies, now \in Times, env \in Services :
          Reject(req'.user, req'.id, body, now, env)
          => /\ req'.id \in DOMAIN items'
             /\ TargetAfter.status = Str(rejected)
             /\ Submission(TargetAfter) = <<NULL, NULL, NULL>>
             /\ TargetAfter.reviewNotes = Str(trim(body["reviewNotes"].str))
             /\ TargetAfter.reviewedBy = Num(req'.user.id)]_vars

\* An admin rejected an item and the notes stored are the trimmed notes.
C5_Witness ==
  /\ req.op = "reject"
  /\ Succeeded(res)
  /\ req.id \in DOMAIN items
  /\ items[req.id].status = Str(rejected)
  /\ items[req.id].reviewNotes = Str(NeedsMoreDetail)

\* C6 as stated: a successful complete leaves the item submitted, with
\* submittedAt non-null, explanation the trimmed explanation given and
\* workLink the given link or null.
C6_CompleteStoresGivenLink ==
  [][(req'.op = "complete" /\ Succeeded(res'))
     => \A body \in CompleteBodies, now \in Times :
          Complete(req'.user, req'.id, body, now)
          => /\ TargetAfter.status = Str(submitted)
             /\ TargetAfter.submittedAt # NULL
             /\ TargetAfter.explanation = Str(trim(body["explanation"].str))
             /\ \/ TargetAfter.workLink = NULL
                \/ Has(body, "workLink") /\ TargetAfter.workLink = body["workLink"]]_vars

\* C6 as amended: ... and workLink the trimmed link given, or null when no
\* link or a blank one is given.
C6_CompleteStoresTrimmedLink ==
  [][(req'.op = "complete" /\ Succeeded(res'))
     => \A body \in CompleteBodies, now \in Times :
          Complete(req'.user, req'.id, body, now)
          => /\ HasExplanation(body)
             /\ req'.id \in DOMAIN items'
             /\ TargetAfter.status = Str(submitted)
             /\ TargetAfter.submittedAt # NULL
             /\ TargetAfter.explanation = Str(trim(body["explanation"].str))
             /\ TargetAfter.workLink = TrimmedLink(body)]_vars

\* A complete with a padded explanation and a padded link succeeded.
C6_Witness ==
  /\ req.op = "complete"
  /\ Succeeded(res)
  /\ req.id \in DOMAIN items
  /\ items[req.id].status = Str(submitted)
  /\ items[req.id].explanation = Str(trim(FixedPadded))
  /\ items[req.id].workLink = Str(GoodLink)

\* C7: no complete, approve or reject call, by any actor, changes an approved
\* item, and none of them succeeds on it.
C7_ApprovedTerminal ==
  [][(/\ req'.op \in {"complete", "approve", "reject"}
      /\ req'.id \in DOMAIN items
      /\ Target.status = Str(approved))
     => (~Succeeded(res') /\ items' = items)]_vars

\* The assignee's complete on an approved item was refused.
C7_Witness ==
  /\ req.op = "complete"
  /\ req.id \in DOMAIN items
  /\ Num(req.user.id) = items[req.id].workerId
  /\ res = AlreadyCompleted
  /\ items[req.id].status = Str(approved)

\* C8: a complete call succeeds only on an item whose status is pending or
\* rejected; on a submitted item it fails and leaves the submission unchanged.
C8_CompleteOnlyFromPendingOrRejected ==
  [][(req'.op = "complete" /\ req'.id \in DOMAIN items)
     => /\ Succeeded(res') => Target.status \in {Str(pending), Str(rejected)}
        /\ Target.status = Str(submitted)
             => (~Succeeded(res') /\ items' = items)]_vars

\* C9 as stated: a complete by the assignee on a rejected item, with a new
\* explanation, succeeds and the item is submitted again with that
\* explanation and a non-null submittedAt.
C9_ResubmitStoresGiven ==
  [][(/\ req'.op = "complete"
      /\ req'.id \in DOMAIN items
      /\ Target.status = Str(rejected)
      /\ Num(req'.user.id) = Target.workerId)
     => \A body \in CompleteBodies, now \in Times :
          (Complete(req'.user, req'.id, body, now) /\ HasExplanation(body)
             /\ LinkAcceptable(body))
          => /\ Succeeded(res')
             /\ TargetAfter.status = Str(submitted)
             /\ TargetAfter.explanation = body["explanation"]
             /\ TargetAfter.submittedAt # NULL]_vars

\* C9 as amended: ... with the new explanation trimmed ...
C9_ResubmitStoresTrimmed ==
  [][(/\ req'.op = "complete"
      /\ req'.id \in DOMAIN items
      /\ Target.status = Str(rejected)
      /\ Num(req'.user.id) = Target.workerId)
     => \A body \in CompleteBodies, now \in Times :
          (Complete(req'.user, req'.id, body, now) /\ HasExplanation(body)
             /\ LinkAcceptable(body))
          => /\ Succeeded(res')
             /\ req'.id \in DOMAIN items'
             /\ TargetAfter.status = Str(submitted)
             /\ TargetAfter.explanation = Str(trim(body["explanation"].str))
             /\ TargetAfter.submittedAt # NULL]_vars

\* The assignee resubmitted an item that carries the notes of a rejection.
C9_Witness ==
  /\ req.op = "complete"
  /\ Succeeded(res)
  /\ req.id \in DOMAIN items
  /\ Num(req.user.id) = items[req.id].workerId
  /\ items[req.id].status = Str(submitted)
  /\ items[req.id].explanation = Str(trim(FixedPadded))
  /\ items[req.id].reviewNotes = Str(NeedsMoreDetail)
  /\ items[req.id].reviewedBy # NULL

\* C10: submittedAt and explanation are null together; a submitted item has
\* both, a pending or rejected item has neither.
C10_SubmissionFieldsTogether ==
  \A id \in DOMAIN items :
    /\ (items[id].submittedAt = NULL) <=> (items[id].explanation = NULL)
    /\ items[id].status = Str(submitted)
         => (items[id].submittedAt # NULL /\ items[id].explanation # NULL)
    /\ items[id].status \in {Str(pending), Str(rejected)}
         => (items[id].submittedAt = NULL /\ items[id].explanation = NULL)

\* C11: reviewedAt, reviewedBy and reviewNotes of an item change only in a
\* successful approve or reject step; no assign, complete or generic update
\* call changes any of them.
C11_ReviewFieldsOnlyByReview ==
  [][\A id \in DOMAIN items \cap DOMAIN items' :
       Review(items'[id]) # Review(items[id])
       => (req'.op \in {"approve", "reject"} /\ Succeeded(res'))]_vars

\* C12: when a request violates several checks, the error is that of the
\* earliest in the order existence, authorization, state, field validation:
\* a complete, approve or reject call on an id that names no item is answered
\* not-found whatever its body; on an existing item a caller who may not act
\* is answered forbidden; and a caller who may act on an item in the wrong
\* state is answered with the conflict error.
C12_EarliestCheckReported ==
  [][(req'.op \in {"complete", "approve", "reject"})
     => /\ (req'.id \notin DOMAIN items
              /\ (req'.op = "complete" \/ req'.user.role = "admin"))
             => res' = NotFound
        /\ (req'.id \in DOMAIN items /\ ~Authorized(req'.op, req'.user, Target))
             => Forbidden(res')
        /\ (req'.id \in DOMAIN items /\ Authorized(req'.op, req'.user, Target)
              /\ WrongState(req'.op, Target))
             => Conflict(res')]_vars

\* C13: an assign by an admin whose workerId names no user is answered
\* not-found and creates no item; a complete, approve, reject, update or
\* delete on an id that names no item is answered not-found and changes
\* nothing.
C13_MissingReferenceNotFound ==
  [][/\ (req'.op = "assign" /\ req'.user.role = "admin")
          => \A body \in AssignBodies, now \in Times, env \in Services :
               (Assign(req'.user, body, now, env)
                  /\ \A k \in {"workerId", "task", "instructions", "deadline"} :
                       ~Falsy(body, k)
                  /\ body["workerId"].num \notin DOMAIN users)
               => (res'.status = 404 /\ items' = items)
     /\ (req'.op \in {"complete", "approve", "reject", "update", "delete"}
           /\ (req'.op = "complete" \/ req'.user.role = "admin")
           /\ req'.id \notin DOMAIN items)
          => (res'.status = 404 /\ items' = items)]_vars

\* C14: an assign step creates an item only for a worker whose isActive flag
\* is set.
C14_AssignOnlyToActive ==
  [][(req'.op = "assign" /\ nextId \in DOMAIN items' \ DOMAIN items)
     => /\ items'[nextId].workerId.num \in DOMAIN users
        /\ users[items'[nextId].workerId.num].isActive]_vars

\* C15: a complete call that passes the existence, ownership and status
\* checks with an explanation but whose workLink is not an http(s) URL is
\* answered with a validation error, not a server error, and the table keeps
\* its previous value.
C15_BadLinkIsValidationError ==
  [][(/\ req'.op = "complete"
      /\ req'.id \in DOMAIN items
      /\ Authorized("complete", req'.user, Target)
      /\ ~WrongState("complete", Target))
     => \A body \in CompleteBodies, now \in Times :
          (Complete(req'.user, req'.id, body, now) /\ HasExplanation(body)
             /\ ~LinkAcceptable(body))
          => (res'.status = 400 /\ items' = items)]_vars

\* C16: every assign, approve and reject step that changed the table is
\* answered with success, whatever the mail and calendar services did.
C16_SideEffectsNeverFail ==
  [][(req'.op \in {"assign", "approve", "reject"} /\ items' # items)
     => Succeeded(res')]_vars

\* C17: in every step, each notification or calendar call follows the write
\* of the item named in the request; calls are made only by an assign,
\* approve or reject that changed the table, and none by a request answered
\* with a not-found, forbidden, conflict or validation error.
C17_DispatchAfterWrite ==
  [][/\ \A i \in Dispatched(outbox') :
          \E j \in 1..(i - 1) : outbox'[j] = Wrote(req'.id)
     /\ Dispatched(outbox') # {}
          => (req'.op \in {"assign", "approve", "reject"} /\ items' # items)
     /\ res'.status \in {400, 403, 404} => Dispatched(outbox') = {}]_vars

\* An approve wrote the item and then notified its worker.
C17_Witness ==
  /\ req.op = "approve"
  /\ Succeeded(res)
  /\ req.id \in DOMAIN items
  /\ items[req.id].status = Str(approved)
  /\ outbox = <<Wrote(req.id), Mailed(items[req.id].workerId.num)>>

\* C18: after every successful complete a notification has been sent to
\* every user whose role is admin, following the write of the submission.
C18_CompleteNotifiesAdmins ==
  (req.op = "complete" /\ Succeeded(res))
  => \A u \in DOMAIN users :
       users[u].role = "admin"
       => \E i \in DOMAIN outbox :
            /\ outbox[i] = Mailed(u)
            /\ \E j \in 1..(i - 1) : outbox[j] = Wrote(req.id)

\* The row the write of request r alone produces from the row r read.
Alone(r) == ModelCall(r, (r.id :> r.read), users).items[r.id]

\* C19: when an approve or reject that read a submitted item writes, the
\* stored item is what that write alone produces from the submitted item it
\* read, whatever another request wrote in between.
C19_LastWriterWinsCompletely ==
  [][\A r \in inflight :
       (Write(r) /\ r.op \in {"approve", "reject"}
          /\ r.read.status = Str(submitted))
       => (r.id \in DOMAIN items' /\ items'[r.id] = Alone(r))]_vars

\* C20: the write of a complete, approve or reject is applied only if the
\* status of the item at the moment of the write still allows the operation.
C20_NoWriteOnStaleRead ==
  [][\A r \in inflight :
       (Write(r) /\ items' # items)
       => (r.id \in DOMAIN items /\ ~WrongState(r.op, items[r.id]))]_vars

\* C21: the list an admin gets holds every stored item, and the list a worker
\* gets holds exactly the stored items whose workerId is the worker's id;
\* each element carries the stored row.
C21_ListFilteredByRole ==
  (req.op = "get" /\ req.path = <<>>)
  => /\ Succeeded(res)
     /\ view.kind = "list"
     /\ {e.id : e \in view.data}
          = IF req.user.role = "admin" THEN DOMAIN items
            ELSE {i \in DOMAIN items : items[i].workerId = Num(req.user.id)}
     /\ \A e \in view.data : e.row = items[e.id]

\* A worker listed its items while the only stored item is another worker's.
C21_Witness ==
  /\ req.op = "get"
  /\ req.path = <<>>
  /\ req.user.role = "worker"
  /\ \E i \in DOMAIN items : items[i].workerId # Num(req.user.id)
  /\ view.kind = "list"
  /\ \A e \in view.data : e.row.workerId = Num(req.user.id)

\* C22: a successful assign by admin A for worker W creates an item that is
\* pending, with assignedBy A, workerId W and null submittedAt, reviewedAt,
\* explanation, workLink, reviewNotes and reviewedBy; findById of that item
\* right after returns summaries whose worker id is W and assignedBy id is A.
C22_AssignRoundTrip ==
  [][(req'.op = "assign" /\ Succeeded(res'))
     => \A body \in AssignBodies, now \in Times, env \in Services :
          Assign(req'.user, body, now, env)
          => /\ req'.id \in DOMAIN items' \ DOMAIN items
             /\ TargetAfter.status = Str(pending)
             /\ TargetAfter.assignedBy = Num(req'.user.id)
             /\ TargetAfter.workerId = body["workerId"]
             /\ Submission(TargetAfter) = <<NULL, NULL, NULL>>
             /\ Review(TargetAfter) = <<NULL, NULL, NULL>>
             /\ LET found == WorkItem_findById(items', users', req'.id)
                IN  /\ found # NULL
                    /\ found.worker.id = body["workerId"]
                    /\ found.assignedByUser.id = Num(req'.user.id)]_vars

\* An admin's assign for worker 2 succeeded and the item is stored.
C22_Witness ==
  /\ req.op = "assign"
  /\ Succeeded(res)
  /\ req.user.role = "admin"
  /\ req.id \in DOMAIN items
  /\ items[req.id].workerId = Num(2)
  /\ items[req.id].assignedBy = Num(req.user.id)
  /\ items[req.id].status = Str(pending)

\* C27: a GET /stats by an admin is answered with the number of stored items
\* and, for each of pending, submitted, approved and rejected, the number of
\* stored items with that status.
C27_StatsCounts ==
  (req.op = "get" /\ req.path = <<statsPath>> /\ req.user.role = "admin")
  => /\ Succeeded(res)
     /\ view.kind = "stats"
     /\ view.data.totalTasks = Cardinality(DOMAIN items)
     /\ \A st \in StatusValues :
          Cardinality({i \in DOMAIN items : items[i].status = Str(st)})
            = (CASE st = pending -> view.data.pendingTasks
                 [] st = submitted -> view.data.submittedTasks
                 [] st = approved -> view.data.approvedTasks
                 [] st = rejected -> view.data.rejectedTasks)

\* C30: an item asked at time t is overdue exactly when its deadline is
\* earlier than t and its status is pending or rejected; a submitted or
\* approved item is never overdue, and the row stores no overdue column.
C30_OverdueDerived ==
  (req.op = "isOverdue")
  => LET row == items[req.id]
     IN  /\ view.data.overdue
              <=> /\ "num" \in DOMAIN row.deadline
                  /\ row.deadline.num < view.data.at
                  /\ row.status \in {Str(pending), Str(rejected)}
         /\ row.status \in {Str(submitted), Str(approved)} => ~view.data.overdue
         /\ "overdue" \notin DOMAIN row

\* A rejected item asked after its deadline is overdue.
C30_Witness ==
  /\ req.op = "isOverdue"
  /\ items[req.id].status = Str(rejected)
  /\ items[req.id].deadline.num < view.data.at
  /\ view.data.overdue

NotesTooShort(body) ==
  Falsy(body, "reviewNotes") \/ Len(trim(body["reviewNotes"].str)) < MinReviewNotes

\* C26: a reject call whose reviewNotes is missing, blank or shorter than 10
\* characters after trimming fails and leaves the table unchanged, whatever
\* the status of the item; made by an admin, it is answered with the
\* validation error on the notes.
C26_RejectNeedsNotes ==
  [][(req'.op = "reject")
     => \A body \in {b \in RejectBodies : NotesTooShort(b)},
           now \in Times, env \in Services :
          Reject(req'.user, req'.id, body, now, env)
          => /\ ~Succeeded(res')
             /\ items' = items
             /\ req'.user.role = "admin" => res' = ReviewNotesRequired]_vars

\* An admin's reject of a submitted item was refused for its notes.
C26_Witness ==
  /\ req.op = "reject"
  /\ req.user.role = "admin"
  /\ res = ReviewNotesRequired
  /\ req.id \in DOMAIN items
  /\ items[req.id].status = Str(submitted)

\* C24: after every step each stored item's workerId and assignedBy name a
\* user that exists, and a successful delete of a user leaves exactly the
\* items whose workerId is not that user.
C24_DeleteUserCascades ==
  [][/\ \A i \in DOMAIN items' :
          /\ items'[i].workerId.num \in DOMAIN users'
          /\ items'[i].assignedBy.num \in DOMAIN users'
     /\ (req'.op = "deleteUser" /\ Succeeded(res'))
          => /\ req'.id \notin DOMAIN users'
             /\ DOMAIN items' = {i \in DOMAIN items : items[i].workerId # Num(req'.id)}
             /\ \A i \in DOMAIN items' : items'[i] = items[i]]_vars

\* A user was deleted and the item assigned to it went with it.
C24_Witness ==
  /\ req.op = "deleteUser"
  /\ Succeeded(res)
  /\ req.id \notin DOMAIN users
  /\ nextId > 1
  /\ items = <<>>

\* The ids of the items that were deleted: ids are handed out in order and
\* never again, and here only DELETE removes an item.
Gone == (1..(nextId - 1)) \ DOMAIN items

\* C25: a successful delete of an item removes that item and no other, leaving
\* the others as they were; from then on no list shows the item, a get of its
\* id is answered not-found, and a complete by anyone or an approve, reject,
\* update or delete by an admin on its id is answered not-found and changes
\* nothing.
C25_DeletedStaysGone ==
  [][/\ (req'.op = "delete" /\ Succeeded(res'))
          => /\ DOMAIN items' = DOMAIN items \ {req'.id}
             /\ \A i \in DOMAIN items' : items'[i] = items[i]
     /\ (req'.op = "get" /\ view'.kind = "list")
          => \A e \in view'.data : e.id \notin Gone
     /\ (req'.op = "get" /\ Len(req'.path) = 1
           /\ idParam(req'.path[1]) \in Gone)
          => res' = NotFound
     /\ (req'.op \in {"complete", "approve", "reject", "update", "delete"}
           /\ req'.id \in Gone
           /\ (req'.op = "complete" \/ req'.user.role = "admin"))
          => (res' = NotFound /\ items' = items)]_vars

\* C28: in every reachable state a stored workLink is null or a string that
\* matches the absolute http(s) URL pattern, whichever of complete and the
\* generic update wrote it last.
C28_StoredLinkIsUrl ==
  \A i \in DOMAIN items :
    \/ items[i].workLink = NULL
    \/ urlRegex(items[i].workLink.str)

\* C29: in every reachable state every stored item's task has at most 200
\* characters and its task and instructions are non-empty after trimming:
\* no assign and no generic update gets a blank or over-long value stored.
C29_TaskAndInstructionsKept ==
  \A i \in DOMAIN items :
    /\ Len(items[i].task.str) <= MaxTaskLength
    /\ trim(items[i].task.str) # <<>>
    /\ trim(items[i].instructions.str) # <<>>

\* C31: no call of User.update, whatever keys it is given, changes the
\* password or the role of a user; it changes no other user and removes
\* none.
C31_UpdateKeepsCredentials ==
  [][(req'.op \in {"update", "profile"})
     => \A u \in DOMAIN users :
          /\ u \in DOMAIN users'
          /\ users'[u].password = users[u].password
          /\ users'[u].role = users[u].role
          /\ (u # req'.id) => users'[u] = users[u]]_vars

\* User.update was called with isActive and a password: the user is
\* deactivated and kept its password.
C31_Witness ==
  /\ req.op = "update"
  /\ Succeeded(res)
  /\ ~users[req.id].isActive
  /\ users[req.id].password = bcryptHash(secret)
  /\ users[req.id].role = "worker"

\* C32: after every step that changes the users table (which starts with
\* distinct emails) no two users have the same email once lower-cased and
\* trimmed, also when the UPDATE of a profile edit runs after the checks
\* of another edit or a registration in between; a registration or profile
\* edit that fails changes nothing.
C32_EmailsUnique ==
  [][/\ (users' # users)
          => \A u, v \in DOMAIN users' :
               (u # v) => normalizeEmail(users'[u].email.str)
                            # normalizeEmail(users'[v].email.str)
     /\ (req'.op \in {"register", "profile"} /\ ~Succeeded(res'))
          => users' = users]_vars

\* A profile edit passed its checks, another account took the address, and
\* the edit failed when its UPDATE ran.
C32_Witness ==
  /\ req.op = "profile"
  /\ res = ServerError
  /\ Has(req.body, "email")
  /\ emailOwners(users, normalizeEmail(req.body.email.str)) \ {req.id} # {}

\* The columns a review leaves alone.
Kept(row) ==
  <<row.submittedAt, row.explanation, row.workLink, row.workerId, row.assignedBy>>

\* The notes of an approve body as given: empty when it carries none.
NotesGiven(body) ==
  IF Falsy(body, "reviewNotes") THEN Str(<<>>) ELSE body["reviewNotes"]

\* C33 as stated: a successful approve sets status approved, a non-null
\* reviewedAt, reviewedBy the acting admin and reviewNotes the notes given
\* (empty when none are given), and leaves submittedAt, explanation,
\* workLink, workerId and assignedBy unchanged.
C33_ApproveStoresGiven ==
  [][(req'.op = "approve" /\ Succeeded(res'))
     => \A body \in ApproveBodies, now \in Times, env \in Services :
          Approve(req'.user, req'.id, body, now, env)
          => /\ req'.id \in DOMAIN items'
             /\ TargetAfter.status = Str(approved)
             /\ TargetAfter.reviewedAt # NULL
             /\ TargetAfter.reviewedBy = Num(req'.user.id)
             /\ TargetAfter.reviewNotes = NotesGiven(body)
             /\ Kept(TargetAfter) = Kept(Target)]_vars

\* C33, amended: as above, with reviewNotes the notes given trimmed of
\* surrounding white space.
C33_ApproveStoresTrimmed ==
  [][(req'.op = "approve" /\ Succeeded(res'))
     => \A body \in ApproveBodies, now \in Times, env \in Services :
          Approve(req'.user, req'.id, body, now, env)
          => /\ req'.id \in DOMAIN items'
             /\ TargetAfter.status = Str(approved)
             /\ TargetAfter.reviewedAt # NULL
             /\ TargetAfter.reviewedBy = Num(req'.user.id)
             /\ TargetAfter.reviewNotes = Str(trim(NotesGiven(body).str))
             /\ Kept(TargetAfter) = Kept(Target)]_vars

\* An admin approved a submitted item with padded notes: the notes are
\* stored trimmed and the submission is still there.
C33_Witness ==
  /\ req.op = "approve"
  /\ Succeeded(res)
  /\ req.id \in DOMAIN items
  /\ items[req.id].status = Str(approved)
  /\ items[req.id].reviewNotes = Str(NeedsMoreDetail)
  /\ items[req.id].reviewedBy = Num(req.user.id)
  /\ items[req.id].explanation # NULL

\* C34: in every state, whatever requests are between their read and their
\* write, every stored row shows whole transitions only: a submitted row has
\* its submittedAt and explanation, a rejected row has no submission left and
\* has its review, an approved row has its reviewer and review time, and a
\* pending row has neither submission nor review.
C34_NoPartialTransition ==
  \A id \in DOMAIN items :
    /\ (items[id].status = Str(submitted))
         => (items[id].submittedAt # NULL /\ items[id].explanation # NULL)
    /\ (items[id].status = Str(rejected))
         => /\ Submission(items[id]) = <<NULL, NULL, NULL>>
            /\ \A v \in {items[id].reviewedAt, items[id].reviewedBy,
                          items[id].reviewNotes} : v # NULL
    /\ (items[id].status = Str(approved))
         => (items[id].reviewedAt # NULL /\ items[id].reviewedBy # NULL)
    /\ (items[id].status = Str(pending))
         => (Submission(items[id]) = <<NULL, NULL, NULL>>
               /\ Review(items[id]) = <<NULL, NULL, NULL>>)

\* A request has read a submitted item and not written yet, and the item has
\* meanwhile been rejected by another.
C34_Witness ==
  \E r \in inflight :
    /\ r.id \in DOMAIN items
    /\ r.read.status = Str(submitted)
    /\ items[r.id].status = Str(rejected)

\* C35: when the write of a complete, approve, reject or generic update runs
\* after the item it read has been deleted, the request is not answered with
\* success.
C35_NoSuccessWithoutRow ==
  [][(inflight' # inflight /\ inflight' \subseteq inflight
        /\ req'.id \notin DOMAIN items)
     => ~Succeeded(res')]_vars

\* C36: a request succeeds in an operation that needs the caller's identity
\* or the admin role only while the user its token was issued to exists, is
\* active and has the role the token carries.
C36_AuthFollowsCurrentUser ==
  [][(Succeeded(res')
        /\ req'.op \in {"assign", "complete", "approve", "reject", "update",
                        "delete", "deleteUser"})
     => /\ req'.user.id \in DOMAIN users
        /\ users[req'.user.id].isActive
        /\ users[req'.user.id].role = req'.user.role]_vars

\* C37: a complete call changes no column of the item other than status,
\* submittedAt, explanation and workLink, whoever makes it and whatever an
\* earlier rejection left in reviewedAt, reviewedBy and reviewNotes; it
\* changes no other item and removes none.
C37_CompleteFrame ==
  [][(req'.op = "complete")
     => /\ DOMAIN items' = DOMAIN items
        /\ \A id \in DOMAIN items, c \in Columns :
             (id # req'.id \/ c \notin {"status", "submittedAt", "explanation", "workLink"})
             => items'[id][c] = items[id][c]]_vars

\* An admin completed a rejected item of worker 2: it is submitted, still
\* the worker's, and carries the review of the rejection.
C37_Witness ==
  /\ req.op = "complete"
  /\ Succeeded(res)
  /\ req.user.role = "admin"
  /\ items[req.id].status = Str(submitted)
  /\ items[req.id].workerId = Num(2)
  /\ Review(items[req.id]) # <<NULL, NULL, NULL>>

\* C38: when only assign, complete, approve, reject and delete run, one at
\* a time, every approved item has non-null submittedAt, explanation,
\* reviewedAt and reviewedBy, and every pending item has submittedAt,
\* explanation, workLink, reviewedAt, reviewedBy and reviewNotes all null.
C38_LifecycleShape ==
  \A id \in DOMAIN items :
    /\ (items[id].status = Str(approved))
         => \A v \in {items[id].submittedAt, items[id].explanation,
                       items[id].reviewedAt, items[id].reviewedBy} : v # NULL
    /\ (items[id].status = Str(pending))
         => (Submission(items[id]) = <<NULL, NULL, NULL>>
               /\ Review(items[id]) = <<NULL, NULL, NULL>>)

\* An item was approved after it had been submitted with a link.
C38_Witness ==
  /\ req.op = "approve"
  /\ Succeeded(res)
  /\ items[req.id].status = Str(approved)
  /\ items[req.id].workLink # NULL
  /\ items[req.id].reviewedBy = Num(req.user.id)

\* C39: a worker's get of an item whose workerId is not the worker's id, and
\* a worker's listing of another worker's id, are answered with the
\* forbidden error and carry no data; nothing a worker is shown belongs to
\* another worker; an admin's get of a stored item returns the item.
C39_WorkersReadOwnOnly ==
  (req.op = "get")
  => /\ (req.user.role = "worker" /\ Len(req.path) = 1
           /\ idParam(req.path[1]) \in DOMAIN items
           /\ items[idParam(req.path[1])].workerId # Num(req.user.id))
          => (res = AccessDenied /\ view = NoView)
     /\ (req.user.role = "worker" /\ Len(req.path) = 2
           /\ req.path[1] = workerPath /\ parseInt(req.path[2]) # Num(req.user.id))
          => (res = AccessDenied /\ view = NoView)
     /\ (req.user.role = "worker" /\ view.kind = "item")
          => view.data.row.workerId = Num(req.user.id)
     /\ (req.user.role = "worker" /\ view.kind = "list")
          => \A e \in view.data : e.row.workerId = Num(req.user.id)
     /\ (req.user.role = "admin" /\ Len(req.path) = 1
           /\ idParam(req.path[1]) \in DOMAIN items)
          => (Succeeded(res) /\ view.kind = "item"
                /\ view.data.row = items[idParam(req.path[1])])

\* A worker asked for a stored item of another worker and was refused.
C39_Witness ==
  /\ req.op = "get"
  /\ req.user.role = "worker"
  /\ Len(req.path) = 1
  /\ idParam(req.path[1]) \in DOMAIN items
  /\ items[idParam(req.path[1])].workerId # Num(req.user.id)
  /\ res = AccessDenied
  /\ view = NoView

====
